---- MODULE Spec2Model ----
(***************************************************************************)
(* Model of index.py: a forward-chaining rule evaluator for car faults.    *)
(*   - Rule / build_rules: five rules, each a predicate over the fact      *)
(*     store (a dict read with f.get).                                     *)
(*   - ExpertSystem.infer / show_results: the match-collect-report loop.   *)
(*   - run_interactive / run_cli / main: the two collaborators that build  *)
(*     the fact store and invoke the engine.                               *)
(* Python's None is the string "None" wherever a value may be None; a fact *)
(* store is a function whose DOMAIN is the set of keys present.            *)
(***************************************************************************)
EXTENDS Integers, Sequences, FiniteSets, TLC

VARIABLES pc, mode, args, answers, facts, rules, ret, warnings, propagated,
          shown, log

vars == <<pc, mode, args, answers, facts, rules, ret, warnings, propagated,
          shown, log>>

\* ---------------------------------------------------------------- bounds
\* Rules injected into build_rules() by a harness that drives the engine.
MaxInjected == 2
\* Calls of infer() on one ExpertSystem object.
MaxCalls == 2

\* ---------------------------------------------------------------- facts
Keys == {"arranca", "tablero", "apaga_al_acelerar", "humo"}
BoolKeys == {"arranca", "tablero", "apaga_al_acelerar"}
HumoValues == {"ninguno", "negro", "blanco", "blanco_constante"}

\* facts = {}
EmptyFacts == [k \in {} |-> TRUE]

\* facts[k] = v
SetItem(f, k, v) == (k :> v) @@ f

\* facts.setdefault(k, v)
SetDefault(f, k, v) == f @@ (k :> v)

\* f.get(k) is True / f.get(k) is False: an absent key yields None, which is
\* neither.
GetIs(f, k, b) == k \in DOMAIN f /\ f[k] = b

\* f.get(k) == s for a string s: None equals no string.
GetEq(f, k, s) == k \in DOMAIN f /\ f[k] = s

\* ---------------------------------------------------------------- rules
Bateria == "No arranca + tablero apagado"
Arranque == "No arranca + tablero encendido"
Combustible == "Se apaga al acelerar"
HumoNegro == "Humo negro"
HumoBlanco == "Humo blanco constante"

\* Rules a harness injects: the first subscripts the store (f["humo"]) and
\* so raises KeyError when humo is absent; the second divides by zero.
HumoEstricto == "Humo estricto"
SiempreFalla == "Siempre falla"
Injected == {HumoEstricto, SiempreFalla}

CheckBateriaFalsy(f) ==
    /\ ~ GetIs(f, "arranca", TRUE)
    /\ ~ GetIs(f, "tablero", TRUE)

CheckBateria(f) == GetIs(f, "arranca", FALSE) /\ GetIs(f, "tablero", FALSE)

CheckArranqueNoTablero(f) == GetIs(f, "arranca", FALSE)

CheckArranque(f) == GetIs(f, "arranca", FALSE) /\ GetIs(f, "tablero", TRUE)

CheckCombustibleNoArranca(f) == GetIs(f, "apaga_al_acelerar", TRUE)

CheckCombustible(f) ==
    GetIs(f, "arranca", TRUE) /\ GetIs(f, "apaga_al_acelerar", TRUE)

CheckHumoNegro(f) == GetEq(f, "humo", "negro")

CheckHumoBlancoPrefix(f) ==
    GetEq(f, "humo", "blanco") \/ GetEq(f, "humo", "blanco_constante")

CheckHumoBlanco(f) == GetEq(f, "humo", "blanco_constante")

\* rule.check(facts): "True", "False", or the name of the exception raised.
Check(rule, f) ==
    CASE rule = Bateria -> IF CheckBateria(f) THEN "True" ELSE "False"
      [] rule = Arranque -> IF CheckArranque(f) THEN "True" ELSE "False"
      [] rule = Combustible -> IF CheckCombustible(f) THEN "True" ELSE "False"
      [] rule = HumoNegro -> IF CheckHumoNegro(f) THEN "True" ELSE "False"
      [] rule = HumoBlanco -> IF CheckHumoBlanco(f) THEN "True" ELSE "False"
      [] rule = HumoEstricto ->
            IF "humo" \notin DOMAIN f THEN "KeyError"
            ELSE IF f["humo"] = "negro" THEN "True" ELSE "False"
      [] rule = SiempreFalla -> "ZeroDivisionError"

Diagnosis(rule) ==
    CASE rule = Bateria -> "bateria descargada"
      [] rule = Arranque -> "fallo en el motor de arranque"
      [] rule = Combustible -> "problema en el suministro de combustible"
      [] rule = HumoNegro -> "mezcla rica de combustible"
      [] rule = HumoBlanco -> "falla en la junta de culata"
      [] rule = HumoEstricto -> "mezcla rica de combustible (estricta)"
      [] rule = SiempreFalla -> "ninguno"

BuildRulesReordered == <<Bateria, Arranque, HumoNegro, Combustible, HumoBlanco>>

BuildRules == <<Bateria, Arranque, Combustible, HumoNegro, HumoBlanco>>

\* ---------------------------------------------------------------- engine
CatchesKeyErrorOnly(exc) == exc = "KeyError"

\* except Exception: every exception a rule raises here derives from it.
Catches(exc) == exc \in {"KeyError", "ZeroDivisionError"}

StaleResults(prev) == IF prev = <<>> THEN <<>> ELSE prev[Len(prev)]

\* results = [] at the head of infer; prev is what earlier calls returned.
FreshResults(prev) == <<>>

\* The for loop of infer from rule i on. acc = [results, warnings, raised]:
\* raised is "None" until an exception escapes the try, which ends the loop.
RECURSIVE InferFrom(_, _, _, _)
InferFrom(rs, f, i, acc) ==
    IF i > Len(rs) \/ acc.raised # "None" THEN acc
    ELSE LET rule == rs[i]
             out == Check(rule, f)
         IN  CASE out = "True" ->
                    InferFrom(rs, f, i + 1,
                        [acc EXCEPT !.results = Append(@, <<rule, Diagnosis(rule)>>)])
               [] out = "False" -> InferFrom(rs, f, i + 1, acc)
               [] OTHER ->
                    IF Catches(out)
                    THEN InferFrom(rs, f, i + 1,
                            [acc EXCEPT !.warnings = Append(@, <<rule, out>>)])
                    ELSE [acc EXCEPT !.raised = out]

InferCall(rs, f, prev) ==
    InferFrom(rs, f, 1,
        [results |-> FreshResults(prev), warnings |-> <<>>, raised |-> "None"])

\* show_results(matches): the lines printed.
ShowLines(matches) ==
    IF matches = <<>> THEN << <<"No se encontro un diagnostico">> >>
    ELSE [i \in 1..Len(matches) |-> <<i, matches[i][2], matches[i][1]>>]

\* ---------------------------------------------------------------- inputs
NoArgs ==
    [modo |-> "None", arranca |-> "None", tablero |-> "None",
     apaga_al_acelerar |-> "None", humo |-> "None"]

NoAnswers ==
    [arranca |-> "None", tablero |-> "None", apaga |-> "None",
     hay_humo |-> "None", color |-> "None"]

NoLog == [m \in {"interactivo", "cli"} |-> <<>>]

\* Every store over a subset of the four keys, each key with a value of its
\* type.
BoolPart == UNION {[D -> BOOLEAN] : D \in SUBSET BoolKeys}
HumoPart == {EmptyFacts} \cup {("humo" :> h) : h \in HumoValues}
FactStores == {b @@ h : b \in BoolPart, h \in HumoPart}

Range(s) == {s[i] : i \in DOMAIN s}

InsertAt(l, p, r) == SubSeq(l, 1, p) \o <<r>> \o SubSeq(l, p + 1, Len(l))

\* build_rules() with at most n injected rules, each at any position.
RECURSIVE RuleLists(_)
RuleLists(n) ==
    IF n = 0 THEN {BuildRules}
    ELSE LET S == RuleLists(n - 1)
         IN  S \cup {InsertAt(l, p, r) :
                        <<l, p, r>> \in
                            {t \in S \X (0..(Len(BuildRules) + n)) \X Injected :
                                t[2] <= Len(t[1]) /\ t[3] \notin Range(t[1])}}

\* ---------------------------------------------------------------- text
\* Strings whose characters matter are tuples of characters.
LowerChar(c) ==
    CASE c = "N" -> "n" [] c = "B" -> "b" [] c = "S" -> "s" [] c = "I" -> "i"
      [] c = "O" -> "o" [] c = "Y" -> "y" [] c = "E" -> "e"
      [] OTHER -> c

\* str.lower()
Lower(s) == [i \in DOMAIN s |-> LowerChar(s[i])]

\* str.strip()
RECURSIVE Strip(_)
Strip(s) ==
    IF s = <<>> THEN s
    ELSE IF Head(s) = " " THEN Strip(Tail(s))
    ELSE IF s[Len(s)] = " " THEN Strip(SubSeq(s, 1, Len(s) - 1))
    ELSE s

\* str.startswith(prefix)
StartsWith(s, prefix) ==
    Len(prefix) <= Len(s) /\ SubSeq(s, 1, Len(prefix)) = prefix

YesWords == {<<"s">>, <<"s", "i">>, <<"s", "í">>, <<"y">>, <<"y", "e", "s">>}
NoWords == {<<"n">>, <<"n", "o">>}

\* One round of ask_yes_no on a typed line: "si", "no", or "retry" when the
\* loop prints its hint and prompts again.
AskYesNo(line) ==
    LET ans == Lower(Strip(line))
    IN  IF ans \in YesWords THEN "si"
        ELSE IF ans \in NoWords THEN "no"
        ELSE "retry"

Options ==
    << <<"N", "e", "g", "r", "o">>,
       <<"B", "l", "a", "n", "c", "o">>,
       <<"B", "l", "a", "n", "c", "o", " ", "(", "c", "o", "n", "s", "t", "a",
         "n", "t", "e", ")">>,
       <<"N", "i", "n", "g", "u", "n", "o", "/", "N", "o", " ", "s", "e", "g",
         "u", "r", "o">> >>

DigitStr(i) ==
    CASE i = 1 -> <<"1">> [] i = 2 -> <<"2">> [] i = 3 -> <<"3">>
      [] i = 4 -> <<"4">>

\* One round of ask_choice over Options: the number of the option chosen,
\* or 0 when the loop prompts again.
AskChoice(line) ==
    LET ans == Strip(line)
        hit == {i \in DOMAIN Options : DigitStr(i) = ans}
    IN  IF hit = {} THEN 0 ELSE CHOOSE i \in hit : TRUE

ColorToHumoSwapped(color) ==
    LET c == Lower(color)
    IN  IF StartsWith(c, <<"n", "e", "g", "r", "o">>) THEN "negro"
        ELSE IF StartsWith(c, <<"b", "l", "a", "n", "c", "o">>) THEN "blanco"
        ELSE IF StartsWith(c, <<"b", "l", "a", "n", "c", "o", " ", "(", "c",
                                "o", "n", "s", "t", "a", "n", "t", "e", ")">>)
             THEN "blanco_constante"
        ELSE "ninguno"

\* The if/elif chain of run_interactive over the colour chosen.
ColorToHumo(color) ==
    LET c == Lower(color)
    IN  IF StartsWith(c, <<"n", "e", "g", "r", "o">>) THEN "negro"
        ELSE IF StartsWith(c, <<"b", "l", "a", "n", "c", "o", " ", "(", "c",
                                "o", "n", "s", "t", "a", "n", "t", "e", ")">>)
             THEN "blanco_constante"
        ELSE IF StartsWith(c, <<"b", "l", "a", "n", "c", "o">>) THEN "blanco"
        ELSE "ninguno"

\* Lines a user may type at a yes/no prompt and at the colour prompt.
YesNoLines ==
    {<<"s">>, <<"S", "i">>, <<" ", "y", "e", "s">>, <<"n">>, <<"N", "O", " ">>,
     <<"x">>, <<>>}
ChoiceLines ==
    {<<"1">>, <<"2">>, <<" ", "3">>, <<"4">>, <<"5">>, <<"N", "e", "g", "r", "o">>}

\* ---------------------------------------------------------------- flags
SiNo == {"si", "no"}

\* argparse: each flag is one of its choices, or None when not passed.
ArgSets ==
    [modo : {"None", "cli", "interactivo"},
     arranca : {"None"} \cup SiNo,
     tablero : {"None"} \cup SiNo,
     apaga_al_acelerar : {"None"} \cup SiNo,
     humo : {"None"} \cup HumoValues]

\* {"si": True, "no": False}.get(flag, default)
DictGet(flag, default) ==
    IF flag = "si" THEN TRUE ELSE IF flag = "no" THEN FALSE ELSE default

CliArranca(a) == DictGet(a.arranca, TRUE)

CliApaga(a) == DictGet(a.apaga_al_acelerar, FALSE)

\* args.humo or "ninguno"
CliHumo(a) == IF a.humo = "None" THEN "ninguno" ELSE a.humo

\* tablero after the two "coherencia minima" ifs.
CliTablero(a) ==
    LET tablero == DictGet(a.tablero, TRUE)
        t1 == IF CliArranca(a) /\ a.tablero = "None" THEN TRUE ELSE tablero
    IN  IF ~ CliArranca(a) /\ a.tablero = "None" THEN FALSE ELSE t1

\* The facts dict run_cli builds.
CliFacts(a) ==
    [arranca |-> CliArranca(a), tablero |-> CliTablero(a),
     apaga_al_acelerar |-> CliApaga(a), humo |-> CliHumo(a)]

\* The function main() dispatches to.
MainMode(a) ==
    IF a.modo = "cli" THEN "cli"
    ELSE IF a.modo = "interactivo" THEN "interactivo"
    ELSE IF \E k \in {"arranca", "tablero", "apaga_al_acelerar", "humo"} :
                a[k] # "None"
         THEN "cli"
    ELSE "interactivo"

\* ---------------------------------------------------------------- states
\* ExpertSystem(rules, facts) as constructed by a harness that drives the
\* engine directly.
InitEngine ==
    /\ pc = "engine"
    /\ mode = "directo"
    /\ args = NoArgs
    /\ answers = NoAnswers
    /\ facts \in FactStores
    /\ rules \in RuleLists(MaxInjected)
    /\ ret = <<>>
    /\ warnings = <<>>
    /\ propagated = "None"
    /\ shown = <<>>
    /\ log = NoLog

\* The program before main() runs.
InitMain ==
    /\ pc = "main"
    /\ mode = "none"
    /\ args = NoArgs
    /\ answers = NoAnswers
    /\ facts = EmptyFacts
    /\ rules = <<>>
    /\ ret = <<>>
    /\ warnings = <<>>
    /\ propagated = "None"
    /\ shown = <<>>
    /\ log = NoLog

Init == InitEngine \/ InitMain

\* ---------------------------------------------------------------- main
\* main(): parse the flags and enter run_cli(args) or run_interactive().
\* Each collaborator is run once in a behaviour.
Main ==
    /\ pc = "main"
    /\ \E a \in ArgSets :
          LET m == MainMode(a)
          IN  /\ log[m] = <<>>
              /\ mode' = m
              /\ IF m = "cli"
                 THEN pc' = "run_cli" /\ args' = a
                 ELSE pc' = "ask_arranca" /\ args' = NoArgs
    /\ facts' = EmptyFacts
    /\ UNCHANGED <<answers, rules, ret, warnings, propagated, shown, log>>

\* run_cli up to es = ExpertSystem(build_rules(), facts).
RunCli ==
    /\ pc = "run_cli"
    /\ facts' = CliFacts(args)
    /\ rules' = BuildRules
    /\ pc' = "engine"
    /\ UNCHANGED <<mode, args, answers, ret, warnings, propagated, shown, log>>

\* arranca = ask_yes_no(...); facts["arranca"] = arranca
AskArranca ==
    /\ pc = "ask_arranca"
    /\ \E line \in YesNoLines :
          LET a == AskYesNo(line)
          IN  IF a = "retry" THEN UNCHANGED <<pc, answers, facts>>
              ELSE /\ facts' = SetItem(facts, "arranca", a = "si")
                   /\ answers' = [answers EXCEPT !.arranca = a]
                   /\ pc' = IF a = "no" THEN "ask_tablero" ELSE "ask_apaga"
    /\ UNCHANGED <<mode, args, rules, ret, warnings, propagated, shown, log>>

\* tablero = ask_yes_no(...); facts["tablero"] = tablero
AskTablero ==
    /\ pc = "ask_tablero"
    /\ \E line \in YesNoLines :
          LET a == AskYesNo(line)
          IN  IF a = "retry" THEN UNCHANGED <<pc, answers, facts>>
              ELSE /\ facts' = SetItem(facts, "tablero", a = "si")
                   /\ answers' = [answers EXCEPT !.tablero = a]
                   /\ pc' = "ask_humo"
    /\ UNCHANGED <<mode, args, rules, ret, warnings, propagated, shown, log>>

\* apaga = ask_yes_no(...); facts["apaga_al_acelerar"] = apaga;
\* facts.setdefault("tablero", True)
AskApaga ==
    /\ pc = "ask_apaga"
    /\ \E line \in YesNoLines :
          LET a == AskYesNo(line)
          IN  IF a = "retry" THEN UNCHANGED <<pc, answers, facts>>
              ELSE /\ facts' = SetDefault(
                                 SetItem(facts, "apaga_al_acelerar", a = "si"),
                                 "tablero", TRUE)
                   /\ answers' = [answers EXCEPT !.apaga = a]
                   /\ pc' = "ask_humo"
    /\ UNCHANGED <<mode, args, rules, ret, warnings, propagated, shown, log>>

\* hay_humo = ask_yes_no(...); without smoke facts["humo"] = "ninguno" and
\* the engine is constructed.
AskHumo ==
    /\ pc = "ask_humo"
    /\ \E line \in YesNoLines :
          LET a == AskYesNo(line)
          IN  CASE a = "retry" -> UNCHANGED <<pc, answers, facts, rules>>
                [] a = "si" ->
                     /\ answers' = [answers EXCEPT !.hay_humo = a]
                     /\ pc' = "ask_color"
                     /\ UNCHANGED <<facts, rules>>
                [] a = "no" ->
                     /\ answers' = [answers EXCEPT !.hay_humo = a]
                     /\ facts' = SetItem(facts, "humo", "ninguno")
                     /\ rules' = BuildRules
                     /\ pc' = "engine"
    /\ UNCHANGED <<mode, args, ret, warnings, propagated, shown, log>>

\* color = ask_choice(...); facts["humo"] from the colour; the engine is
\* constructed.
AskColor ==
    /\ pc = "ask_color"
    /\ \E line \in ChoiceLines :
          LET n == AskChoice(line)
          IN  IF n = 0 THEN UNCHANGED <<pc, answers, facts, rules>>
              ELSE /\ answers' = [answers EXCEPT !.color = DigitStr(n)[1]]
                   /\ facts' = SetItem(facts, "humo", ColorToHumo(Options[n]))
                   /\ rules' = BuildRules
                   /\ pc' = "engine"
    /\ UNCHANGED <<mode, args, ret, warnings, propagated, shown, log>>

\* ---------------------------------------------------------------- engine
\* matches = es.infer(): one whole call.
InferStep ==
    LET r == InferCall(rules, facts, ret)
    IN  /\ warnings' = r.warnings
        /\ propagated' = r.raised
        /\ IF r.raised = "None"
           THEN pc' = "inferred" /\ ret' = Append(ret, r.results)
           ELSE pc' = "crashed" /\ ret' = ret
        /\ UNCHANGED <<mode, args, answers, facts, rules, shown, log>>

Infer ==
    /\ pc = "engine"
    /\ InferStep

\* A harness calling infer() again on the same object.
InferAgain ==
    /\ mode = "directo"
    /\ pc \in {"inferred", "done"}
    /\ Len(ret) < MaxCalls
    /\ InferStep

\* es.show_results(matches); a collaborator's run is then on record.
ShowResults ==
    /\ pc = "inferred"
    /\ shown' = ShowLines(ret[Len(ret)])
    /\ pc' = "done"
    /\ log' = IF mode \in {"interactivo", "cli"}
              THEN [log EXCEPT ![mode] =
                        <<[input |-> IF mode = "cli" THEN args ELSE answers,
                           facts |-> facts,
                           matches |-> ret[Len(ret)]]>>]
              ELSE log
    /\ UNCHANGED <<mode, args, answers, facts, rules, ret, warnings, propagated>>

\* The process ends; the program may be started again.
Exit ==
    /\ pc = "done"
    /\ mode \in {"interactivo", "cli"}
    /\ pc' = "main"
    /\ mode' = "none"
    /\ args' = NoArgs
    /\ answers' = NoAnswers
    /\ facts' = EmptyFacts
    /\ rules' = <<>>
    /\ ret' = <<>>
    /\ warnings' = <<>>
    /\ shown' = <<>>
    /\ UNCHANGED <<propagated, log>>

Next ==
    \/ Main \/ RunCli
    \/ AskArranca \/ AskTablero \/ AskApaga \/ AskHumo \/ AskColor
    \/ Infer \/ InferAgain \/ ShowResults \/ Exit

Spec == Init /\ [][Next]_vars

\* ---------------------------------------------------------------- claims
\* infer() has returned to its caller and the object has not been dropped.
Called == pc \in {"inferred", "done"} /\ ret # <<>>
Last == ret[Len(ret)]
RuleNames(matches) == [i \in DOMAIN matches |-> matches[i][1]]
Diagnoses(matches) == [i \in DOMAIN matches |-> matches[i][2]]
Has(f, k, v) == k \in DOMAIN f /\ f[k] = v

\* The rule table of the specification, in definition order.
TableOrder ==
    <<"No arranca + tablero apagado", "No arranca + tablero encendido",
      "Se apaga al acelerar", "Humo negro", "Humo blanco constante">>
TableHolds(rule, f) ==
    CASE rule = "No arranca + tablero apagado" ->
            Has(f, "arranca", FALSE) /\ Has(f, "tablero", FALSE)
      [] rule = "No arranca + tablero encendido" ->
            Has(f, "arranca", FALSE) /\ Has(f, "tablero", TRUE)
      [] rule = "Se apaga al acelerar" ->
            Has(f, "arranca", TRUE) /\ Has(f, "apaga_al_acelerar", TRUE)
      [] rule = "Humo negro" -> Has(f, "humo", "negro")
      [] rule = "Humo blanco constante" -> Has(f, "humo", "blanco_constante")
      [] rule = "Humo estricto" -> Has(f, "humo", "negro")
      [] OTHER -> FALSE
TableReads(rule) ==
    CASE rule = "No arranca + tablero apagado" -> {"arranca", "tablero"}
      [] rule = "No arranca + tablero encendido" -> {"arranca", "tablero"}
      [] rule = "Se apaga al acelerar" -> {"arranca", "apaga_al_acelerar"}
      [] OTHER -> {"humo"}
TableMatches(rs, f) ==
    LET Test(r) == TableHolds(r, f)
        hit == SelectSeq(rs, Test)
    IN  [i \in DOMAIN hit |-> <<hit[i], Diagnosis(hit[i])>>]

\* C1: over build_rules(), every call of infer returns exactly the rules
\* whose table condition holds on the fact store, each once and in
\* rule-definition order (the empty sequence when none holds).
C1_ExactMatches ==
    (rules = BuildRules /\ Called) =>
        \A i \in DOMAIN ret : ret[i] = TableMatches(TableOrder, facts)

\* The multi-match scenario: dead battery, then rich mixture.
C1_Witness ==
    /\ mode = "directo" /\ rules = BuildRules /\ Called
    /\ Has(facts, "arranca", FALSE) /\ Has(facts, "tablero", FALSE)
    /\ Has(facts, "humo", "negro")
    /\ RuleNames(Last) = <<Bateria, HumoNegro>>

\* C2: with arranca=false, tablero=false decides between dead battery
\* (tablero=false) and starter motor failure (tablero=true): the result has
\* the one and not the other, whatever apaga_al_acelerar and humo are.
C2_BatteryXorStarter ==
    (Called /\ Has(facts, "arranca", FALSE)) =>
        /\ Has(facts, "tablero", FALSE) =>
              (Bateria \in Range(RuleNames(Last))
                  /\ Arranque \notin Range(RuleNames(Last)))
        /\ Has(facts, "tablero", TRUE) =>
              (Arranque \in Range(RuleNames(Last))
                  /\ Bateria \notin Range(RuleNames(Last)))

C2_Witness ==
    /\ Called /\ Has(facts, "arranca", FALSE) /\ Has(facts, "tablero", TRUE)
    /\ Has(facts, "apaga_al_acelerar", TRUE) /\ Has(facts, "humo", "blanco")
    /\ Arranque \in Range(RuleNames(Last))

\* The rules of the list that raise on the store.
Raises(rule, f) ==
    \/ rule = "Siempre falla"
    \/ rule = "Humo estricto" /\ "humo" \notin DOMAIN f
Raising(rs, f) == LET Test(r) == Raises(r, f) IN SelectSeq(rs, Test)

\* C3: when rules of the list raise on the fact store, infer still returns
\* (nothing reaches the caller), its result is the matches of the other
\* rules in rule order, and it printed one warning per raising rule, naming
\* it, in rule order.
C3_FaultIsolation ==
    (Raising(rules, facts) # <<>>) =>
        /\ pc # "crashed"
        /\ propagated = "None"
        /\ Called =>
              /\ Last = TableMatches(rules, facts)
              /\ RuleNames(warnings) = Raising(rules, facts)

\* Two raising rules, the first at the head of the list, and a rule after it
\* that still matches.
C3_Witness ==
    /\ Called
    /\ Len(Raising(rules, facts)) = 2
    /\ Len(warnings) = 2
    /\ RuleNames(Last) = <<Combustible>>
    /\ rules[1] \in Injected

\* C4: with any of the four keys absent, infer over build_rules() raises
\* nothing and warns of nothing, and no rule that reads an absent key is in
\* the result.
C4_MissingKeys ==
    (rules = BuildRules /\ DOMAIN facts # Keys) =>
        /\ pc # "crashed"
        /\ propagated = "None"
        /\ Called =>
              /\ warnings = <<>>
              /\ \A i \in DOMAIN Last : TableReads(Last[i][1]) \subseteq DOMAIN facts

\* humo absent, another rule matching.
C4_Witness ==
    /\ rules = BuildRules /\ Called
    /\ "humo" \notin DOMAIN facts /\ "tablero" \notin DOMAIN facts
    /\ Has(facts, "arranca", TRUE)
    /\ RuleNames(Last) = <<Combustible>>

\* The interactive run is past its colour question.
ColorAsked == mode = "interactivo" /\ answers.color # "None"

\* C5: with humo = "blanco" neither smoke rule is in the result; and the
\* interactive answer "Blanco" (option 2) gives humo = "blanco", while humo
\* = "blanco_constante" comes from "Blanco (constante)" (option 3) only.
C5_PlainWhiteGap ==
    /\ (Called /\ Has(facts, "humo", "blanco")) =>
          /\ HumoNegro \notin Range(RuleNames(Last))
          /\ HumoBlanco \notin Range(RuleNames(Last))
    /\ ColorAsked =>
          /\ answers.color = "2" => Has(facts, "humo", "blanco")
          /\ Has(facts, "humo", "blanco_constante") <=> answers.color = "3"

C5_Witness ==
    /\ ColorAsked /\ Called
    /\ answers.color = "2"
    /\ Has(facts, "humo", "blanco")
    /\ RuleNames(Last) = <<Arranque>>

\* A collaborator is about to construct the engine on its fact store.
Invoking == mode \in {"interactivo", "cli"} /\ pc = "engine"

\* C6: whenever a collaborator hands a store with arranca = true to the
\* engine, the store has tablero = true.
C6_TableroNeutral ==
    (Invoking /\ Has(facts, "arranca", TRUE)) => Has(facts, "tablero", TRUE)

\* C7: whenever a collaborator hands a store to the engine, the store has
\* all four keys.
C7_AllFourKeys == Invoking => DOMAIN facts = Keys

\* C8: a call of infer leaves the fact store as it was, and a call after
\* the first returns what the call before it returned.
C8_Idempotent ==
    [][Len(ret') = Len(ret) + 1 =>
          /\ facts' = facts
          /\ Len(ret) >= 1 => ret'[Len(ret')] = ret[Len(ret)]]_vars

C8_Witness ==
    /\ Len(ret) = 2
    /\ Len(ret[1]) = 2
    /\ ret[2] = ret[1]

\* C9: over build_rules() a result has at most two matches: at most one of
\* dead battery, starter motor failure and fuel supply, and at most one of
\* the two smoke rules.
C9_AtMostTwo ==
    (rules = BuildRules /\ Called) =>
        /\ Len(Last) <= 2
        /\ Cardinality({i \in DOMAIN Last :
                Last[i][1] \in {Bateria, Arranque, Combustible}}) <= 1
        /\ Cardinality({i \in DOMAIN Last :
                Last[i][1] \in {HumoNegro, HumoBlanco}}) <= 1

C9_Witness ==
    /\ rules = BuildRules /\ Called
    /\ RuleNames(Last) = <<Combustible, HumoBlanco>>

\* The --humo values that carry the interactive smoke answers.
HumoFlags(ans) ==
    IF ans.hay_humo = "no" THEN {"None", "ninguno"}
    ELSE CASE ans.color = "1" -> {"negro"}
           [] ans.color = "2" -> {"blanco"}
           [] ans.color = "3" -> {"blanco_constante"}
           [] OTHER -> {"ninguno"}

\* The flags a carry the interactive answers ans, and no other.
SameAnswers(ans, a) ==
    /\ a.arranca = ans.arranca
    /\ a.tablero = ans.tablero
    /\ a.apaga_al_acelerar = ans.apaga
    /\ a.humo \in HumoFlags(ans)

BothRan == log["interactivo"] # <<>> /\ log["cli"] # <<>>

\* C10: an interactive run and a flag run that carry the same answers print
\* the same diagnoses in the same order.
C10_SameDiagnoses ==
    (BothRan /\ SameAnswers(log["interactivo"][1].input, log["cli"][1].input)) =>
        Diagnoses(log["interactivo"][1].matches) = Diagnoses(log["cli"][1].matches)

\* The two stores differ (the interactive one lacks apaga_al_acelerar) and
\* both runs diagnose a dead battery and a rich mixture.
C10_Witness ==
    /\ BothRan
    /\ SameAnswers(log["interactivo"][1].input, log["cli"][1].input)
    /\ DOMAIN log["interactivo"][1].facts # DOMAIN log["cli"][1].facts
    /\ Len(log["cli"][1].matches) = 2
====
